---- MODULE Spec2Model ----
(***************************************************************************)
(* A model of two parts of rasa.nlu:                                       *)
(*   - CountVectorsFeaturizer (featurizers/count_vectors_featurizer.py):   *)
(*     the component's fields and its train() and process() methods,       *)
(*     checked under Spec;                                                 *)
(*   - the BILOU helpers (utils/bilou_utils.py): bilou_tags_from_offsets,  *)
(*     checked under SpecBilou, build_tag_id_dict, under SpecTagId, and    *)
(*     tags_to_ids, under SpecTagsToIds.                                   *)
(*                                                                         *)
(* Representation.                                                         *)
(*   A text is the sequence of its whitespace-separated words, so that     *)
(*   ' '.join(...) and str.split() are the sequence itself; '' and ' '     *)
(*   are both the empty sequence.  An optional value (Python's None or a   *)
(*   value) is the empty tuple or a one-element tuple.  A count vector is  *)
(*   a function from the vocabulary's terms to counts: the column of a     *)
(*   term is named by the term itself instead of by its index.  A BILOU    *)
(*   tag and an entity label are strings, modelled as sequences of code    *)
(*   points, so that slicing, formatting and sorting are the string        *)
(*   operations of the code.                                               *)
(***************************************************************************)
EXTENDS Integers, Sequences, FiniteSets, TLC

VARIABLES
    \* ---- CountVectorsFeaturizer: component_config, read by __init__ ----
    sequence, use_shared_vocab, sparse, min_df, OOV_token, OOV_words,
    \* ---- CountVectorsFeaturizer: fields that change ----
    vect, is_test_data_featurized,
    \* ---- the last call made on the component: its name, its arguments
    \*      as the call left them (an argument the call does not take is
    \*      empty), what it returned and what it raised ----
    op, training_data, message, kwargs, test_data, ret, exc,
    \* ---- the state of the featurization orchestrator after the last
    \*      call and before it: "UNINITIALIZED", "TRAINED", "FAILED" (a fit
    \*      step of the last train() raised ValueError) or "RAISED" (the
    \*      last train() itself raised) ----
    status, prev_status,
    \* ---- bilou_tags_from_offsets: its arguments, the list bilou as
    \*      _handle_entities left it and as the call returned it ----
    tokens, entities, after_entities, bilou, pc,
    \* ---- build_tag_id_dict: argument and result ----
    tag_examples, tag_id_dict, tag_pc,
    \* ---- tags_to_ids: arguments and result ----
    ids_message, ids_tag_id_dict, ids_tags, ids_pc

featVars == <<sequence, use_shared_vocab, sparse, min_df, OOV_token, OOV_words,
              vect, is_test_data_featurized,
              op, training_data, message, kwargs, test_data, ret, exc,
              status, prev_status>>
bilouVars == <<tokens, entities, after_entities, bilou, pc>>
tagVars == <<tag_examples, tag_id_dict, tag_pc>>
idsVars == <<ids_message, ids_tag_id_dict, ids_tags, ids_pc>>
vars == <<featVars, bilouVars, tagVars, idsVars>>

(***************************************************************************)
(* Bounds of the model.                                                    *)
(***************************************************************************)
\* the longest training corpus passed to train()
MaxExamples == 1
\* the longest test corpus passed to process()
MaxTestExamples == 1
\* the character offsets of tokens and entities are within 0..MaxPos
MaxPos == 3
\* the most tokens of a message
MaxTokens == 3
\* the most entities of a message
MaxEntities == 2
\* the most training examples given to build_tag_id_dict
MaxTagExamples == 2
\* the most BILOU tags of one of these examples
MaxTags == 2

(***************************************************************************)
(* Generic helpers.                                                        *)
(***************************************************************************)
NoneVal == <<>>
Some(x) == <<x>>
IsNone(o) == o = <<>>
Get(o) == o[1]

\* F applied to the value of v: v is evaluated once, however often F uses it
Let1(v, F(_)) == CHOOSE y \in {F(x) : x \in {v}} : TRUE

Range(s) == Let1(s, LAMBDA v : {v[i] : i \in 1..Len(v)})

Count(t, s) == Let1(s, LAMBDA v : Cardinality({i \in 1..Len(v) : v[i] = t}))

\* the sequence of F(x) for x in s, in order
Map(F(_), s) == Let1(s, LAMBDA v : [i \in 1..Len(v) |-> F(v[i])] \o <<>>)

RECURSIVE ConcatFrom(_, _)
ConcatFrom(ss, i) == IF i > Len(ss) THEN <<>> ELSE ss[i] \o ConcatFrom(ss, i + 1)

\* the concatenation of a sequence of sequences
Concat(ss) == Let1(ss, LAMBDA v : ConcatFrom(v, 1))

SeqsUpTo(S, n) == UNION {[1..k -> S] : k \in 0..n}

Max(S) == CHOOSE m \in S : \A x \in S : x <= m

(***************************************************************************)
(* Words.  A word is a string of word characters (letters, digits, '_'),   *)
(* written as the sequence of its code points.                             *)
(***************************************************************************)
w_hi == <<104, 105>>                                    \* "hi"
w_OOV == <<79, 79, 86>>                                 \* "OOV"
w_rare == <<114, 97, 114, 101>>                         \* "rare"
w_Rare == <<82, 97, 114, 101>>                          \* "Rare"
w_zz == <<122, 122>>                                    \* "zz"
w_7 == <<55>>                                           \* "7"
w_42 == <<52, 50>>                                      \* "42"
w_x == <<120>>                                          \* "x"
w_ask == <<97, 115, 107>>                               \* "ask"
w_ans == <<97, 110, 115>>                               \* "ans"
NUMBER == <<95, 95, 78, 85, 77, 66, 69, 82, 95, 95>>    \* "__NUMBER__"

\* str.lower(), on the ASCII letters
lower(w) == Map(LAMBDA c : IF c \in 65..90 THEN c + 32 ELSE c, w)

\* whether r"\b[0-9]+\b" matches the whole word
IsNumber(w) == w # <<>> /\ \A i \in 1..Len(w) : w[i] \in 48..57

\* the default token_pattern r"(?u)\b\w\w+\b" on one word of word
\* characters: the word itself when it has two characters or more
token_pattern_findall(w) == IF Len(w) >= 2 THEN <<w>> ELSE <<>>

(***************************************************************************)
(* The component's configuration (defaults and _load_OOV_params).          *)
(***************************************************************************)
\* defaults["lowercase"]
lowercase == TRUE
\* defaults["max_df"] is 1.0: a proportion of the documents
max_doc_count(n_doc) == n_doc

\* _load_OOV_params: the OOV words are dropped when no OOV token is given,
\* and both are lowercased when lowercase is set
load_OOV_token(cfg_token) ==
    IF lowercase /\ ~IsNone(cfg_token) THEN Some(lower(Get(cfg_token))) ELSE cfg_token

load_OOV_words(cfg_token, cfg_words) ==
    LET ws == IF cfg_words # <<>> /\ IsNone(cfg_token) THEN <<>> ELSE cfg_words
    IN IF lowercase /\ ~IsNone(cfg_token) /\ ws # <<>>
       THEN Map(lower, ws) ELSE ws

(***************************************************************************)
(* self.vect: None, one CountVectorizer (shared vocabulary) or a list of   *)
(* two.  A CountVectorizer has the attribute vocabulary_ once fitted.      *)
(***************************************************************************)
CountVectorizer == [fitted |-> FALSE, vocabulary_ |-> {}]
Fitted(vocab) == [fitted |-> TRUE, vocabulary_ |-> vocab]

vect_None == [kind |-> "None", items |-> <<>>]
vect_single(v) == [kind |-> "CountVectorizer", items |-> <<v>>]
vect_list(v0, v1) == [kind |-> "list", items |-> <<v0, v1>>]

\* hasattr(self.vect, "vocabulary_"): a list has no such attribute
hasattr_vocabulary_(self_vect) ==
    self_vect.kind = "CountVectorizer" /\ self_vect.items[1].fitted

(***************************************************************************)
(* _tokenizer(text), with self.vect as it is when the tokenizer runs.      *)
(***************************************************************************)
_tokenizer(text, self_vect, oov_token, oov_words) ==
    Let1(Concat(Map(token_pattern_findall,
                    Map(LAMBDA w : IF IsNumber(w) THEN NUMBER ELSE w, text))),
         LAMBDA toks :
    IF ~IsNone(oov_token)
    THEN IF hasattr_vocabulary_(self_vect)
         THEN IF Get(oov_token) \in self_vect.items[1].vocabulary_
              THEN Map(LAMBDA t : IF t \in self_vect.items[1].vocabulary_
                                  THEN t ELSE Get(oov_token), toks)
              ELSE toks
         ELSE IF oov_words # <<>>
              THEN Map(LAMBDA t : IF t \in Range(oov_words)
                                  THEN Get(oov_token) ELSE t, toks)
              ELSE toks
    ELSE toks)

(***************************************************************************)
(* sklearn's CountVectorizer with analyzer "word", n-grams (1, 1) and no   *)
(* stop words, as train() constructs it.                                   *)
(***************************************************************************)
\* build_analyzer(): lowercase the document, then the tokenizer
analyze(doc, self_vect, oov_token, oov_words) ==
    _tokenizer(IF lowercase THEN Map(lower, doc) ELSE doc, self_vect, oov_token, oov_words)

\* fit(raw_documents): the terms whose document frequency is within
\* [min_df, max_df]; ValueError (ok = FALSE) on an empty vocabulary
fit(docs, self_vect, mindf, oov_token, oov_words) ==
    Let1(Map(LAMBDA d : Range(analyze(d, self_vect, oov_token, oov_words)), docs),
         LAMBDA toks :
    LET df(t) == Count(TRUE, Map(LAMBDA ts : t \in ts, toks))
    IN Let1({t \in UNION Range(toks) :
                df(t) >= mindf /\ df(t) <= max_doc_count(Len(toks))},
            LAMBDA kept :
       IF kept = {} \/ max_doc_count(Len(toks)) < mindf
       THEN [ok |-> FALSE, v |-> CountVectorizer]
       ELSE [ok |-> TRUE, v |-> Fitted(kept)]))

\* one document's count vector
count_vector(v, toks) == Let1(toks, LAMBDA ts : [t \in v.vocabulary_ |-> Count(t, ts)])

\* transform(raw_documents): one count vector per document
transform(v, docs, self_vect, oov_token, oov_words) ==
    Let1(v, LAMBDA vv :
    Map(LAMBDA d : count_vector(vv, analyze(d, self_vect, oov_token, oov_words)), docs))

\* _get_text_sequence(text): text.split()
_get_text_sequence(text) == text

\* the rows that pad a dense sequence of n rows to seq_len rows
padding(v, n, seq_len) == [p \in 1..(seq_len - n) |-> [t \in v.vocabulary_ |-> -1]]

\* _create_sequence(vect, texts): per text, one count vector per word; when
\* not sparse, padded with -1 to the longest text of the batch.  ok = FALSE
\* is the ValueError of max() on an empty batch.
_create_sequence(v, texts, is_sparse, self_vect, oov_token, oov_words) ==
    Let1(<<v, Map(_get_text_sequence, texts)>>, LAMBDA a :
    LET rows(text) == transform(a[1], Map(LAMBDA w : <<w>>, text),
                                self_vect, oov_token, oov_words)
    IN IF is_sparse
       THEN [ok |-> TRUE, X |-> Map(rows, a[2])]
       ELSE IF a[2] = <<>>
            THEN [ok |-> FALSE, X |-> <<>>]
            ELSE Let1(Max(Range(Map(Len, a[2]))), LAMBDA seq_len :
                 [ok |-> TRUE,
                  X |-> Map(LAMBDA text : rows(text) \o padding(a[1], Len(text), seq_len),
                            a[2])]))

(***************************************************************************)
(* Messages: the fields of a Message that the featurizer reads and sets.   *)
(***************************************************************************)
Msg(text, toks, doc, intent, response) ==
    [text |-> text, tokens |-> toks, spacy_doc |-> doc,
     intent_tokens |-> intent, response_tokens |-> response,
     text_features |-> NoneVal, intent_features |-> NoneVal,
     response_features |-> NoneVal]

\* a value that Python treats as true: neither None nor an empty list
Truthy(o) == ~IsNone(o) /\ Get(o) # <<>>

\* _get_message_text: the lemmas, else the tokens, else the raw text
_get_message_text(m) ==
    IF Truthy(m.spacy_doc) THEN Get(m.spacy_doc)
    ELSE IF Truthy(m.tokens) THEN Get(m.tokens)
    ELSE m.text

\* _get_message_intent iterates message.get("intent_tokens"): a TypeError
\* when the message has none
_get_message_intent_raises(m) == IsNone(m.intent_tokens)
_get_message_intent(m) == Get(m.intent_tokens)

\* _get_message_response: ' ' when the message has no response tokens
_get_message_response(m) ==
    IF IsNone(m.response_tokens) THEN <<>> ELSE Get(m.response_tokens)

\* Featurizer._combine_with_existing_text_features: the new features alone,
\* or stacked after the ones the message already has
_combine_with_existing_text_features(m, additional_features) ==
    IF IsNone(m.text_features) THEN additional_features
    ELSE <<Get(m.text_features), additional_features>>

(***************************************************************************)
(* train(training_data)                                                    *)
(***************************************************************************)
\* the vectorizers train() constructs before anything else
train_new_vect ==
    IF use_shared_vocab THEN vect_single(CountVectorizer)
    ELSE vect_list(CountVectorizer, CountVectorizer)

NoFit == [ok |-> FALSE, vect |-> vect_None, X |-> <<>>, Y_ints |-> <<>>, Y_resps |-> <<>>]

\* the try block, not sequence, shared vocabulary: one fit on the three
\* channels, then three transforms with the fitted vectorizer in self.vect
train_fit_bow_shared(lem_exs, lem_ints, lem_resps) ==
    Let1(fit(lem_exs \o lem_ints \o lem_resps, train_new_vect, min_df, OOV_token, OOV_words),
         LAMBDA f :
    IF ~f.ok THEN NoFit
    ELSE Let1(vect_single(f.v), LAMBDA sv :
         [ok |-> TRUE, vect |-> sv,
          X |-> transform(f.v, lem_exs, sv, OOV_token, OOV_words),
          Y_ints |-> transform(f.v, lem_ints, sv, OOV_token, OOV_words),
          Y_resps |-> transform(f.v, lem_resps, sv, OOV_token, OOV_words)]))

\* a try block that keeps what it has built when the fit on the responses
\* fails
train_fit_bow_separate_partial(lem_exs, lem_ints, lem_resps) ==
    Let1(fit(lem_exs, train_new_vect, min_df, OOV_token, OOV_words), LAMBDA f0 :
    IF ~f0.ok THEN NoFit ELSE
    Let1(fit(lem_ints, train_new_vect, min_df, OOV_token, OOV_words), LAMBDA f1 :
    IF ~f1.ok THEN NoFit ELSE
    Let1(fit(lem_resps, train_new_vect, min_df, OOV_token, OOV_words), LAMBDA f2 :
    [ok |-> TRUE, vect |-> vect_list(f0.v, f2.v),
     X |-> transform(f0.v, lem_exs, train_new_vect, OOV_token, OOV_words),
     Y_ints |-> transform(f1.v, lem_ints, train_new_vect, OOV_token, OOV_words),
     Y_resps |-> transform(f2.v, lem_resps, train_new_vect, OOV_token, OOV_words)])))

\* the try block, not sequence, separate vocabularies: three fit_transform
\* calls, the second and the third both on self.vect[1]
train_fit_bow_separate(lem_exs, lem_ints, lem_resps) ==
    Let1(fit(lem_exs, train_new_vect, min_df, OOV_token, OOV_words), LAMBDA f0 :
    IF ~f0.ok THEN NoFit ELSE
    Let1(fit(lem_ints, train_new_vect, min_df, OOV_token, OOV_words), LAMBDA f1 :
    IF ~f1.ok THEN NoFit ELSE
    Let1(fit(lem_resps, train_new_vect, min_df, OOV_token, OOV_words), LAMBDA f2 :
    IF ~f2.ok THEN NoFit ELSE
    [ok |-> TRUE, vect |-> vect_list(f0.v, f2.v),
     X |-> transform(f0.v, lem_exs, train_new_vect, OOV_token, OOV_words),
     Y_ints |-> transform(f1.v, lem_ints, train_new_vect, OOV_token, OOV_words),
     Y_resps |-> transform(f2.v, lem_resps, train_new_vect, OOV_token, OOV_words)])))

\* the try block, sequence, shared vocabulary: the fit leaves the responses out
train_fit_seq_shared(lem_exs, lem_ints, lem_resps) ==
    Let1(fit(lem_exs \o lem_ints, train_new_vect, min_df, OOV_token, OOV_words),
         LAMBDA f :
    IF ~f.ok THEN NoFit ELSE
    Let1(vect_single(f.v), LAMBDA sv :
    Let1(_create_sequence(f.v, lem_exs, sparse, sv, OOV_token, OOV_words), LAMBDA X :
    IF ~X.ok THEN NoFit ELSE
    [ok |-> TRUE, vect |-> sv, X |-> X.X,
     Y_ints |-> _create_sequence(f.v, lem_ints, sparse, sv, OOV_token, OOV_words).X,
     Y_resps |-> _create_sequence(f.v, lem_resps, sparse, sv, OOV_token, OOV_words).X])))

\* the try block, sequence, separate vocabularies
train_fit_seq_separate(lem_exs, lem_ints, lem_resps) ==
    Let1(fit(lem_exs, train_new_vect, min_df, OOV_token, OOV_words), LAMBDA f0 :
    IF ~f0.ok THEN NoFit ELSE
    Let1(_create_sequence(f0.v, lem_exs, sparse, train_new_vect, OOV_token, OOV_words),
         LAMBDA X :
    IF ~X.ok THEN NoFit ELSE
    Let1(fit(lem_ints \o lem_resps, train_new_vect, min_df, OOV_token, OOV_words),
         LAMBDA f1 :
    IF ~f1.ok THEN NoFit ELSE
    [ok |-> TRUE, vect |-> vect_list(f0.v, f1.v), X |-> X.X,
     Y_ints |-> _create_sequence(f1.v, lem_ints, sparse, train_new_vect,
                                 OOV_token, OOV_words).X,
     Y_resps |-> _create_sequence(f1.v, lem_resps, sparse, train_new_vect,
                                  OOV_token, OOV_words).X])))

\* the try block: ok = FALSE when a step raised ValueError
train_fit(exs, ints, resps) ==
    Let1(<<exs, ints, resps>>, LAMBDA lem :
    IF ~sequence
    THEN IF use_shared_vocab THEN train_fit_bow_shared(lem[1], lem[2], lem[3])
         ELSE train_fit_bow_separate(lem[1], lem[2], lem[3])
    ELSE IF use_shared_vocab THEN train_fit_seq_shared(lem[1], lem[2], lem[3])
         ELSE train_fit_seq_separate(lem[1], lem[2], lem[3]))

\* an except clause that returns without discarding the vectorizers
train_except_keeps_vect(examples) ==
    [vect |-> train_new_vect, training_data |-> examples, exc |-> "none"]

\* the except clause: self.vect = None, and the examples as they were
train_except(examples) ==
    [vect |-> vect_None, training_data |-> examples, exc |-> "none"]

\* the loop that sets the three features on every example
train_set_features(examples, f) ==
    [i \in 1..Len(examples) |->
        [examples[i] EXCEPT
            !.text_features =
                IF ~sequence /\ ~sparse
                THEN Some(_combine_with_existing_text_features(examples[i], f.X[i]))
                ELSE Some(f.X[i]),
            !.intent_features = Some(f.Y_ints[i]),
            !.response_features = Some(f.Y_resps[i])]]

\* train(): the new self.vect, the examples after the call, and the
\* exception that left the call, if any
train(examples) ==
    IF \E i \in 1..Len(examples) : _get_message_intent_raises(examples[i])
    THEN [vect |-> train_new_vect, training_data |-> examples, exc |-> "TypeError"]
    ELSE Let1(train_fit(Map(_get_message_text, examples),
                        Map(_get_message_intent, examples),
                        Map(_get_message_response, examples)),
              LAMBDA f :
         IF ~f.ok THEN train_except(examples)
         ELSE [vect |-> f.vect, training_data |-> train_set_features(examples, f),
               exc |-> "none"])

(***************************************************************************)
(* process(message, **kwargs)                                              *)
(***************************************************************************)
\* what transforming with vectorizer v raises: sklearn's NotFittedError
\* from transform(), the AttributeError of vect.vocabulary_ in
\* _create_sequence, the ValueError of max() on an empty batch
transform_raises(v, texts) ==
    IF ~v.fitted THEN (IF sequence THEN "AttributeError" ELSE "NotFittedError")
    ELSE IF sequence /\ ~sparse /\ texts = <<>> THEN "ValueError"
    ELSE "none"

\* a test that ignores is_test_data_featurized
process_takes_test_data_always(kw) == kw.has_test

\* whether this call featurizes the test data
process_takes_test_data(kw) == kw.has_test /\ ~is_test_data_featurized

\* the exception that leaves the test-data branch, if any
process_test_raises(kw) ==
    LET td == kw.test_data
        v == IF use_shared_vocab THEN vect.items[1] ELSE vect.items[2]
    IN IF \E i \in 1..Len(td) : _get_message_intent_raises(td[i]) THEN "TypeError"
       ELSE transform_raises(v, td)

\* the test-data branch: intent_features and response_features of every
\* test example, from the shared vectorizer or from self.vect[1]
process_test_data(td) ==
    Let1(IF use_shared_vocab THEN vect.items[1] ELSE vect.items[2], LAMBDA v :
    Let1(<<Map(_get_message_intent, td), Map(_get_message_response, td)>>, LAMBDA lem :
    Let1(IF ~sequence
         THEN <<transform(v, lem[1], vect, OOV_token, OOV_words),
                transform(v, lem[2], vect, OOV_token, OOV_words)>>
         ELSE <<_create_sequence(v, lem[1], sparse, vect, OOV_token, OOV_words).X,
                _create_sequence(v, lem[2], sparse, vect, OOV_token, OOV_words).X>>,
         LAMBDA Y :
    [i \in 1..Len(td) |->
        [td[i] EXCEPT !.intent_features = Some(Y[1][i]),
                      !.response_features = Some(Y[2][i])]])))

\* a message branch that sets nothing on the message
process_message_skipped(m) == m

\* the message branch: text_features from the shared vectorizer or from
\* self.vect[0]; squeeze() drops the batch axis of the dense results
process_message(m) ==
    LET v == vect.items[1]
        message_text == _get_message_text(m)
    IN IF ~sequence
       THEN Let1(transform(v, <<message_text>>, vect, OOV_token, OOV_words), LAMBDA bag :
            IF ~sparse
            THEN [m EXCEPT !.text_features =
                      Some(_combine_with_existing_text_features(m, bag[1]))]
            ELSE [m EXCEPT !.text_features = Some(bag)])
       ELSE Let1(_create_sequence(v, <<message_text>>, sparse, vect, OOV_token, OOV_words).X,
                 LAMBDA seq :
            IF ~sparse
            THEN [m EXCEPT !.text_features = Some(seq[1])]
            ELSE [m EXCEPT !.text_features = Some(seq)])

\* the call's outcome when it raises: nothing has been set yet
process_raise(m, kw, e) ==
    [message |-> m, test_data |-> kw.test_data, ret |-> NoneVal,
     flag |-> is_test_data_featurized, exc |-> e]

\* the first branch of process(): no trained CountVectorizer, an error is
\* logged and the call returns None
process_untrained(m, kw) ==
    [message |-> m, test_data |-> kw.test_data, ret |-> NoneVal,
     flag |-> is_test_data_featurized, exc |-> "none"]

\* the second branch of process()
process_trained(m, kw) ==
    Let1(process_takes_test_data(kw), LAMBDA takes :
    Let1(IF takes THEN process_test_raises(kw) ELSE "none", LAMBDA e_test :
    IF e_test # "none" THEN process_raise(m, kw, e_test) ELSE
    Let1(transform_raises(vect.items[1], <<_get_message_text(m)>>), LAMBDA e_msg :
    IF e_msg # "none" THEN process_raise(m, kw, e_msg) ELSE
    Let1(IF takes THEN process_test_data(kw.test_data) ELSE kw.test_data, LAMBDA td :
    [message |-> process_message(m), test_data |-> td,
     ret |-> IF takes THEN Some(td) ELSE NoneVal,
     flag |-> is_test_data_featurized \/ takes, exc |-> "none"]))))

process(m, kw) ==
    IF vect.kind = "None" THEN process_untrained(m, kw) ELSE process_trained(m, kw)

(***************************************************************************)
(* The inputs of the calls.                                                *)
(***************************************************************************)
\* the text of a message: the raw text, the tokens, the lemmas
TrainTexts ==
    { [text |-> <<w_Rare, w_7>>, tokens |-> NoneVal, spacy_doc |-> NoneVal] }

MessageTexts ==
    TrainTexts \cup
    { [text |-> <<w_zz, w_42>>, tokens |-> Some(<<w_zz, w_42, w_x>>), spacy_doc |-> NoneVal],
      [text |-> <<w_x>>, tokens |-> Some(<<>>), spacy_doc |-> Some(<<w_rare, w_zz, w_zz>>)] }

\* the intent and response tokens of a training example: an empty intent,
\* an intent without response, an intent with a response, and an example
\* that carries no intent tokens
TrainLabels ==
    { [intent |-> Some(<<>>), response |-> NoneVal],
      [intent |-> Some(<<w_ask>>), response |-> NoneVal],
      [intent |-> Some(<<w_ask>>), response |-> Some(<<w_ans>>)],
      [intent |-> NoneVal, response |-> NoneVal] }

TrainExamples ==
    {Msg(t.text, t.tokens, t.spacy_doc, l.intent, l.response) :
        t \in TrainTexts, l \in TrainLabels}

TestExamples ==
    { Msg(<<w_hi>>, NoneVal, NoneVal, Some(<<w_ans, w_ask>>), Some(<<w_ans>>)),
      Msg(<<w_hi>>, NoneVal, NoneVal, NoneVal, NoneVal) }

Messages ==
    {Msg(t.text, t.tokens, t.spacy_doc, Some(<<w_ask>>), NoneVal) : t \in MessageTexts}

NoMessage == Msg(<<>>, NoneVal, NoneVal, NoneVal, NoneVal)
NoKwargs == [has_test |-> FALSE, test_data |-> <<>>]
Kwargs == {NoKwargs} \cup
          {[has_test |-> TRUE, test_data |-> td] : td \in SeqsUpTo(TestExamples, MaxTestExamples)}

(***************************************************************************)
(* The component as a state machine.                                       *)
(***************************************************************************)
BilouIdle ==
    /\ tokens = <<>> /\ entities = <<>> /\ bilou = <<>> /\ after_entities = <<>>
    /\ pc = "idle"

TagIdle == tag_examples = <<>> /\ tag_id_dict = <<>> /\ tag_pc = "idle"

IdsIdle ==
    /\ ids_message = [bilou_entities |-> <<>>, tokens |-> <<>>]
    /\ ids_tag_id_dict = <<>> /\ ids_tags = <<>> /\ ids_pc = "idle"

\* __init__(component_config)
FeatInit ==
    /\ sequence \in BOOLEAN
    /\ use_shared_vocab \in BOOLEAN
    /\ sparse \in BOOLEAN
    /\ min_df \in {1, 2}
    /\ \E cfg_token \in {NoneVal, Some(w_OOV)}, cfg_words \in {<<>>, <<w_Rare>>} :
          /\ OOV_token = load_OOV_token(cfg_token)
          /\ OOV_words = load_OOV_words(cfg_token, cfg_words)
    /\ vect = vect_None
    /\ is_test_data_featurized = FALSE
    /\ op = "__init__"
    /\ training_data = <<>>
    /\ message = NoMessage
    /\ kwargs = NoKwargs
    /\ test_data = <<>>
    /\ ret = NoneVal
    /\ exc = "none"
    /\ status = "UNINITIALIZED"
    /\ prev_status = "UNINITIALIZED"

FeatIdle ==
    /\ sequence = FALSE /\ use_shared_vocab = FALSE /\ sparse = FALSE /\ min_df = 1
    /\ OOV_token = NoneVal /\ OOV_words = <<>>
    /\ vect = vect_None /\ is_test_data_featurized = FALSE /\ op = "idle"
    /\ training_data = <<>> /\ message = NoMessage
    /\ kwargs = NoKwargs /\ test_data = <<>> /\ ret = NoneVal /\ exc = "none"
    /\ status = "UNINITIALIZED" /\ prev_status = "UNINITIALIZED"

\* whether one of the fit steps of train() on these examples raises
\* ValueError: some vocabulary it is to build is empty
a_fit_fails(examples) ==
    LET lem_exs == Map(_get_message_text, examples)
        lem_ints == Map(_get_message_intent, examples)
        lem_resps == Map(_get_message_response, examples)
        fails(docs) == ~fit(docs, train_new_vect, min_df, OOV_token, OOV_words).ok
    IN IF ~sequence
       THEN IF use_shared_vocab THEN fails(lem_exs \o lem_ints \o lem_resps)
            ELSE fails(lem_exs) \/ fails(lem_ints) \/ fails(lem_resps)
       ELSE IF use_shared_vocab THEN fails(lem_exs \o lem_ints)
            ELSE fails(lem_exs) \/ fails(lem_ints \o lem_resps)

\* the orchestrator's state after train() on these examples
train_status(examples) ==
    IF \E i \in 1..Len(examples) : _get_message_intent_raises(examples[i]) THEN "RAISED"
    ELSE IF a_fit_fails(examples) THEN "FAILED"
    ELSE "TRAINED"

Init == FeatInit /\ BilouIdle /\ TagIdle /\ IdsIdle

Train ==
    /\ \E examples \in SeqsUpTo(TrainExamples, MaxExamples) :
          \E r \in {train(examples)} :
             /\ vect' = r.vect
             /\ training_data' = r.training_data
             /\ exc' = r.exc
             /\ status' = train_status(examples)
    /\ prev_status' = status
    /\ op' = "train"
    /\ message' = NoMessage /\ kwargs' = NoKwargs /\ test_data' = <<>> /\ ret' = NoneVal
    /\ UNCHANGED <<sequence, use_shared_vocab, sparse, min_df, OOV_token, OOV_words,
                   is_test_data_featurized>>
    /\ UNCHANGED <<bilouVars, tagVars, idsVars>>

Process ==
    /\ \E m \in Messages, kw \in Kwargs :
          \E r \in {process(m, kw)} :
             /\ message' = r.message
             /\ kwargs' = kw
             /\ test_data' = r.test_data
             /\ ret' = r.ret
             /\ is_test_data_featurized' = r.flag
             /\ exc' = r.exc
    /\ op' = "process"
    /\ training_data' = <<>>
    /\ prev_status' = status
    /\ UNCHANGED <<sequence, use_shared_vocab, sparse, min_df, OOV_token, OOV_words, vect,
                   status>>
    /\ UNCHANGED <<bilouVars, tagVars, idsVars>>

Next == Train \/ Process

Spec == Init /\ [][Next]_vars

(***************************************************************************)
(* bilou_utils: tags and labels are strings, written as code points.       *)
(* Token indices are those of the sequences: the first token is 1.         *)
(***************************************************************************)
tag_O == <<79>>                                         \* "O"
tag_missing == <<45>>                                   \* "-"
label_a == <<97>>                                       \* "a"
label_b == <<98>>                                       \* "b"
label_ab == <<97, 98>>                                  \* "ab"

\* ["B-", "I-", "U-", "L-"]
BILOU_PREFIXES == << <<66, 45>>, <<73, 45>>, <<85, 45>>, <<76, 45>> >>

\* "B-%s" % label, "I-%s" % label, "U-%s" % label, "L-%s" % label
B_(label) == <<66, 45>> \o label
I_(label) == <<73, 45>> \o label
U_(label) == <<85, 45>> \o label
L_(label) == <<76, 45>> \o label

\* tag[:2] and tag[2:]
slice_to_2(tag) == SubSeq(tag, 1, IF Len(tag) < 2 THEN Len(tag) ELSE 2)
slice_from_2(tag) == SubSeq(tag, 3, Len(tag))

entity_name_from_tag(tag) ==
    IF slice_to_2(tag) \in Range(BILOU_PREFIXES) THEN slice_from_2(tag) ELSE tag

\* {token.start: i for i, token in enumerate(tokens)}: of the tokens with
\* the same start the last one stays
start_pos_to_token_idx(toks) ==
    [pos \in {toks[i].start : i \in 1..Len(toks)} |->
        Max({i \in 1..Len(toks) : toks[i].start = pos})]

end_pos_to_token_idx(toks) ==
    [pos \in {toks[i].end : i \in 1..Len(toks)} |->
        Max({i \in 1..Len(toks) : toks[i].end = pos})]

\* dict.get(key): None when the key is missing
dict_get(d, key) == IF key \in DOMAIN d THEN Some(d[key]) ELSE NoneVal

\* a body of the loop of _handle_entities that leaves alone the tokens an
\* earlier entity has tagged
_handle_entity_if_unset(tags, entity, end_idx, start_idx) ==
    LET start_token_idx == dict_get(start_idx, entity.start)
        end_token_idx == dict_get(end_idx, entity.end)
        tag(n) == IF Get(start_token_idx) = Get(end_token_idx) /\ n = Get(start_token_idx)
                  THEN U_(entity.label)
                  ELSE IF Get(start_token_idx) = Get(end_token_idx) THEN tags[n]
                  ELSE IF n = Get(end_token_idx) THEN L_(entity.label)
                  ELSE IF n > Get(start_token_idx) /\ n < Get(end_token_idx)
                       THEN I_(entity.label)
                  ELSE IF n = Get(start_token_idx) THEN B_(entity.label)
                  ELSE tags[n]
    IN IF ~IsNone(start_token_idx) /\ ~IsNone(end_token_idx)
       THEN [n \in 1..Len(tags) |-> IF tags[n] = tag_missing THEN tag(n) ELSE tags[n]]
       ELSE tags

\* a body of the loop of _handle_entities that has no case for one token
\* and writes B- and then L- on it
_handle_entity_no_unit(tags, entity, end_idx, start_idx) ==
    LET start_token_idx == dict_get(start_idx, entity.start)
        end_token_idx == dict_get(end_idx, entity.end)
    IN IF ~IsNone(start_token_idx) /\ ~IsNone(end_token_idx)
       THEN [n \in 1..Len(tags) |->
                IF n = Get(end_token_idx) THEN L_(entity.label)
                ELSE IF n = Get(start_token_idx) THEN B_(entity.label)
                ELSE IF n > Get(start_token_idx) /\ n < Get(end_token_idx)
                     THEN I_(entity.label)
                ELSE tags[n]]
       ELSE tags

\* the body of the loop of _handle_entities, for one entity
_handle_entity(tags, entity, end_idx, start_idx) ==
    LET start_token_idx == dict_get(start_idx, entity.start)
        end_token_idx == dict_get(end_idx, entity.end)
    IN IF ~IsNone(start_token_idx) /\ ~IsNone(end_token_idx)
       THEN IF Get(start_token_idx) = Get(end_token_idx)
            THEN [tags EXCEPT ![Get(start_token_idx)] = U_(entity.label)]
            ELSE [n \in 1..Len(tags) |->
                     IF n = Get(end_token_idx) THEN L_(entity.label)
                     ELSE IF n > Get(start_token_idx) /\ n < Get(end_token_idx)
                          THEN I_(entity.label)
                     ELSE IF n = Get(start_token_idx) THEN B_(entity.label)
                     ELSE tags[n]]
       ELSE tags

RECURSIVE _handle_entities_from(_, _, _, _, _)
_handle_entities_from(tags, ents, k, end_idx, start_idx) ==
    IF k > Len(ents) THEN tags
    ELSE _handle_entities_from(_handle_entity(tags, ents[k], end_idx, start_idx),
                               ents, k + 1, end_idx, start_idx)

\* _handle_entities: the entities in list order, each writing over the
\* tags of the ones before
_handle_entities(tags, ents, end_idx, start_idx) ==
    _handle_entities_from(tags, ents, 1, end_idx, start_idx)

\* _get_entity_positions: the characters of range(start_pos, end_pos) of
\* every entity
_get_entity_positions(ents) ==
    UNION {ents[k].start .. (ents[k].end - 1) : k \in 1..Len(ents)}

\* a backfill that writes missing on every token that is still "-"
_handle_not_an_entity_everywhere(tags, toks, entity_positions, missing) ==
    [n \in 1..Len(toks) |-> IF tags[n] = tag_missing THEN missing ELSE tags[n]]

\* _handle_not_an_entity: missing on every token none of whose characters
\* is an entity position
_handle_not_an_entity(tags, toks, entity_positions, missing) ==
    [n \in 1..Len(toks) |->
        IF \E i \in toks[n].start .. (toks[n].end - 1) : i \in entity_positions
        THEN tags[n]
        ELSE missing]

\* bilou_tags_from_offsets with the default missing = "O": the list after
\* _handle_entities and the list returned
bilou_tags_from_offsets(toks, ents) ==
    LET after == _handle_entities([n \in 1..Len(toks) |-> tag_missing], ents,
                                  end_pos_to_token_idx(toks),
                                  start_pos_to_token_idx(toks))
    IN [after_entities |-> after,
        bilou |-> _handle_not_an_entity(after, toks, _get_entity_positions(ents), tag_O)]

\* the tokens of a message, as a tokenizer gives them: each of one
\* character at least, in text order, not overlapping
Tokens == {[start |-> a, end |-> b] : a \in 0..MaxPos, b \in 0..MaxPos}

TokenSeqs ==
    {ts \in SeqsUpTo({t \in Tokens : t.start < t.end}, MaxTokens) :
        \A i \in 1..(Len(ts) - 1) : ts[i].end <= ts[i + 1].start}

\* the entities of a message, as annotated: any two offsets and a label
Entities ==
    {[start |-> a, end |-> b, label |-> l] :
        a \in 0..MaxPos, b \in 0..MaxPos, l \in {label_a, label_b}}

BilouInit ==
    /\ tokens \in TokenSeqs
    /\ entities \in SeqsUpTo(Entities, MaxEntities)
    /\ after_entities = <<>> /\ bilou = <<>>
    /\ pc = "call"

BilouTagsFromOffsets ==
    /\ pc = "call"
    /\ \E r \in {bilou_tags_from_offsets(tokens, entities)} :
          /\ after_entities' = r.after_entities
          /\ bilou' = r.bilou
    /\ pc' = "return"
    /\ UNCHANGED <<tokens, entities>>
    /\ UNCHANGED <<featVars, tagVars, idsVars>>

InitBilou == FeatIdle /\ BilouInit /\ TagIdle /\ IdsIdle

NextBilou == BilouTagsFromOffsets

SpecBilou == InitBilou /\ [][NextBilou]_vars

(***************************************************************************)
(* build_tag_id_dict(training_data).  An example is the value of its       *)
(* bilou_entities: None, or a list of tags.                                *)
(***************************************************************************)
\* whether string a sorts before string b: code point by code point, a
\* proper prefix first
RECURSIVE str_less(_, _)
str_less(a, b) ==
    IF b = <<>> THEN FALSE
    ELSE IF a = <<>> THEN TRUE
    ELSE IF a[1] # b[1] THEN a[1] < b[1]
    ELSE str_less(Tail(a), Tail(b))

\* a sort that puts the shorter string first
RECURSIVE sorted_by_length(_)
sorted_by_length(S) ==
    IF S = {} THEN <<>>
    ELSE LET m == CHOOSE x \in S :
                     \A y \in S \ {x} : Len(x) < Len(y) \/ (Len(x) = Len(y) /\ str_less(x, y))
         IN <<m>> \o sorted_by_length(S \ {m})

\* sorted(S) of a set of strings
RECURSIVE sorted(_)
sorted(S) ==
    IF S = {} THEN <<>>
    ELSE LET m == CHOOSE x \in S : \A y \in S \ {x} : str_less(x, y)
         IN <<m>> \o sorted(S \ {m})

\* the set of the prefix-stripped tags of the examples that have tags,
\* without "O"
distinct_tags(examples) ==
    UNION {{entity_name_from_tag(e) : e \in Range(Get(examples[i]))} :
              i \in {i \in 1..Len(examples) : Truthy(examples[i])}}
    \ {tag_O}

\* the dictionary: prefix + tag -> idx_1 * len(BILOU_PREFIXES) + idx_2 + 1
\* with idx_1 and idx_2 counted from 0, and "O" -> 0
build_tag_id_dict(examples) ==
    LET tags == sorted(distinct_tags(examples))
        items == {<<BILOU_PREFIXES[p] \o tags[t],
                    (t - 1) * Len(BILOU_PREFIXES) + (p - 1) + 1>> :
                     <<t, p>> \in (1..Len(tags)) \X (1..Len(BILOU_PREFIXES))}
    IN [key \in {it[1] : it \in items} \cup {tag_O} |->
           IF key = tag_O THEN 0
           ELSE (CHOOSE it \in items : it[1] = key)[2]]

\* the tags of the examples
Tags == {tag_O, tag_missing, U_(label_b), B_(label_ab)}

\* bilou_entities: not set on a message without entities
BilouEntities == {NoneVal} \cup {Some(ts) : ts \in SeqsUpTo(Tags, MaxTags)}

TagInit ==
    /\ tag_examples \in SeqsUpTo(BilouEntities, MaxTagExamples)
    /\ tag_id_dict = <<>>
    /\ tag_pc = "call"

BuildTagIdDict ==
    /\ tag_pc = "call"
    /\ tag_id_dict' = build_tag_id_dict(tag_examples)
    /\ tag_pc' = "return"
    /\ UNCHANGED tag_examples
    /\ UNCHANGED <<featVars, bilouVars, idsVars>>

InitTagId == FeatIdle /\ BilouIdle /\ TagInit /\ IdsIdle

NextTagId == BuildTagIdDict

SpecTagId == InitTagId /\ [][NextTagId]_vars

(***************************************************************************)
(* tags_to_ids(message, tag_id_dict).  Of a message, its bilou_entities    *)
(* (None, or the tags apply_bilou_schema set: one per token) and its       *)
(* tokens.                                                                 *)
(***************************************************************************)
\* a lookup that gives an unknown tag the next free id
tags_to_ids_fresh_id(m, d) ==
    IF Truthy(m.bilou_entities)
    THEN Map(LAMBDA _tag : IF _tag \in DOMAIN d THEN d[_tag] ELSE Cardinality(DOMAIN d),
             Get(m.bilou_entities))
    ELSE Map(LAMBDA t : d[tag_O], m.tokens)

\* tags_to_ids: the id of every tag, the id of "O" for a tag that is not a
\* key; without tags, the id of "O" for every token
tags_to_ids(m, d) ==
    IF Truthy(m.bilou_entities)
    THEN Map(LAMBDA _tag : IF _tag \in DOMAIN d THEN d[_tag] ELSE d[tag_O],
             Get(m.bilou_entities))
    ELSE Map(LAMBDA t : d[tag_O], m.tokens)

\* the tags of a message to map: those of the training examples, and the
\* last tag of an entity "ab"
IdsTags == Tags \cup {L_(label_ab)}

\* a message: tokenized, with no bilou_entities or with one tag per token
IdsMessages ==
    {[bilou_entities |-> b, tokens |-> ts] :
        <<ts, b>> \in {<<ts, b>> \in TokenSeqs \X ({NoneVal} \cup
                                        {Some(x) : x \in SeqsUpTo(IdsTags, MaxTokens)}) :
                          IsNone(b) \/ Len(Get(b)) = Len(ts)}}

\* the dictionaries build_tag_id_dict gives
TagIdDicts == {build_tag_id_dict(c) : c \in SeqsUpTo(BilouEntities, MaxTagExamples)}

IdsInit ==
    /\ ids_message \in IdsMessages
    /\ ids_tag_id_dict \in TagIdDicts
    /\ ids_tags = <<>>
    /\ ids_pc = "call"

TagsToIds ==
    /\ ids_pc = "call"
    /\ ids_tags' = tags_to_ids(ids_message, ids_tag_id_dict)
    /\ ids_pc' = "return"
    /\ UNCHANGED <<ids_message, ids_tag_id_dict>>
    /\ UNCHANGED <<featVars, bilouVars, tagVars>>

InitTagsToIds == FeatIdle /\ BilouIdle /\ TagIdle /\ IdsInit

NextTagsToIds == TagsToIds

SpecTagsToIds == InitTagsToIds /\ [][NextTagsToIds]_vars

(***************************************************************************)
(* Properties of train() and process().                                    *)
(***************************************************************************)
\* an example or message on which no feature has been set
NoFeatures(m) ==
    IsNone(m.text_features) /\ IsNone(m.intent_features) /\ IsNone(m.response_features)

\* C1: after a train() whose vocabulary fitting failed the component is
\* FAILED with vect None, train() did not raise, and every process() call
\* made in that state, with or without a test corpus, returns None without
\* raising and sets no feature on the message nor on the test corpus.
C1_FailedTrainDisablesProcess ==
    status = "FAILED" =>
        /\ vect = vect_None
        /\ exc = "none"
        /\ op = "process" =>
              /\ IsNone(ret)
              /\ NoFeatures(message)
              /\ test_data = kwargs.test_data
              /\ \A i \in 1..Len(test_data) : NoFeatures(test_data[i])

\* a process() call with a test corpus made after a failed train()
C1_Witness ==
    /\ status = "FAILED" /\ op = "process"
    /\ kwargs.has_test /\ kwargs.test_data # <<>>
    /\ ~is_test_data_featurized

C3_FallbackIsAtomic ==
    (op = "train" /\ status = "FAILED") =>
        /\ vect.kind = "None" /\ vect.items = <<>>
        /\ \A i \in 1..Len(training_data) : NoFeatures(training_data[i])

\* a failed train() with separate vocabularies whose first vectorizer had
\* been fitted on the message texts before a later fit failed
C3_Witness ==
    /\ op = "train" /\ status = "FAILED" /\ ~use_shared_vocab
    /\ training_data # <<>>
    /\ fit(Map(_get_message_text, training_data), train_new_vect,
           min_df, OOV_token, OOV_words).ok

\* whether the step is the process() call that featurizes the test corpus
FeaturizesTestData == ~is_test_data_featurized /\ is_test_data_featurized'

RECURSIVE SumFrom(_, _)
SumFrom(ns, i) == IF i > Len(ns) THEN 0 ELSE ns[i] + SumFrom(ns, i + 1)

\* the count vectors in the text features of a processed message: one bag,
\* or one row per word
TextRows(m) ==
    LET tf == Get(m.text_features)
    IN IF ~sequence THEN (IF sparse THEN tf ELSE <<tf>>)
       ELSE (IF sparse THEN tf[1] ELSE tf)

\* the tokens extracted from a message text, before any OOV handling
ExtractedTokens(m) ==
    analyze(_get_message_text(m), vect_None, NoneVal, <<>>)

\* C5: on a trained component whose text vocabulary holds the OOV token,
\* process() counts in the OOV slot every extracted token of the message
\* that is not in the vocabulary, with shared and with separate vocabularies.
C5_InferenceOOV ==
    (/\ op = "process" /\ status = "TRAINED" /\ exc = "none"
     /\ ~IsNone(OOV_token)
     /\ Get(OOV_token) \in vect.items[1].vocabulary_) =>
        LET vocab == vect.items[1].vocabulary_
            toks == ExtractedTokens(message)
            rows == TextRows(message)
        IN SumFrom([i \in 1..Len(rows) |-> rows[i][Get(OOV_token)]], 1)
             = Cardinality({i \in 1..Len(toks) :
                               toks[i] \notin vocab \/ toks[i] = Get(OOV_token)})

\* C6: not sequence, separate vocabularies: after train() the second
\* vectorizer holds the vocabulary of the intent texts, and the intent and
\* the response features of every training example are indexed by it.
C6_IntentVocabulary ==
    (/\ op = "train" /\ status = "TRAINED" /\ ~sequence /\ ~use_shared_vocab) =>
        LET intent_vocab == fit(Map(_get_message_intent, training_data), train_new_vect,
                                min_df, OOV_token, OOV_words).v.vocabulary_
            index(f) == DOMAIN Get(f)
        IN /\ vect.items[2].vocabulary_ = intent_vocab
           /\ \A i \in 1..Len(training_data) :
                 /\ index(training_data[i].intent_features) = intent_vocab
                 /\ index(training_data[i].response_features) = intent_vocab

(***************************************************************************)
(* Properties of bilou_tags_from_offsets.                                  *)
(***************************************************************************)
\* whether some character of token n is a character of the entity's span
Intersects(n, e) ==
    \E c \in tokens[n].start .. (tokens[n].end - 1) : c >= e.start /\ c < e.end

\* C7: one entity that starts where token i starts and ends where token j
\* ends gives U-label on i and O elsewhere when i = j, and B-label on i,
\* L-label on j, I-label strictly between and O elsewhere when i < j.
C7_AlignedEntity ==
    (pc = "return" /\ Len(entities) = 1) =>
        \A i \in 1..Len(tokens), j \in 1..Len(tokens) :
            (/\ i <= j
             /\ entities[1].start = tokens[i].start
             /\ entities[1].end = tokens[j].end) =>
                /\ Len(bilou) = Len(tokens)
                /\ \A n \in 1..Len(tokens) :
                      bilou[n] = IF i = j /\ n = i THEN U_(entities[1].label)
                                 ELSE IF i < j /\ n = i THEN B_(entities[1].label)
                                 ELSE IF i < j /\ n = j THEN L_(entities[1].label)
                                 ELSE IF i < n /\ n < j THEN I_(entities[1].label)
                                 ELSE tag_O

\* one entity over the first three of the tokens, tagged B-, I-, L-
C7_Witness ==
    /\ pc = "return" /\ Len(entities) = 1 /\ Len(tokens) = 3
    /\ entities[1].start = tokens[1].start /\ entities[1].end = tokens[3].end
    /\ bilou = <<B_(label_a), I_(label_a), L_(label_a)>>

\* whether the entity's start is no token's start or its end no token's end
Misaligned(e) ==
    \/ \A i \in 1..Len(tokens) : tokens[i].start # e.start
    \/ \A j \in 1..Len(tokens) : tokens[j].end # e.end

\* C8: one entity whose start or end is not on a token boundary leaves the
\* tokens that intersect its span at "-", the others get O, and no tag
\* carries its label.
C8_MisalignedEntity ==
    (pc = "return" /\ Len(entities) = 1 /\ Misaligned(entities[1])) =>
        /\ Len(bilou) = Len(tokens)
        /\ \A n \in 1..Len(tokens) :
              /\ bilou[n] = IF Intersects(n, entities[1]) THEN tag_missing ELSE tag_O
              /\ bilou[n] \notin {B_(entities[1].label), I_(entities[1].label),
                                  L_(entities[1].label), U_(entities[1].label)}

\* a misaligned entity over a part of the tokens: a "-" and an O
C8_Witness ==
    /\ pc = "return" /\ Len(entities) = 1 /\ Misaligned(entities[1])
    /\ \E n \in 1..Len(tokens) : bilou[n] = tag_missing
    /\ \E n \in 1..Len(tokens) : bilou[n] = tag_O

\* C9: the backfill changes only tags that are still "-": a tag written by
\* _handle_entities is the tag returned.
C9_BackfillKeepsEntityTags ==
    pc = "return" =>
        \A n \in 1..Len(tokens) :
            after_entities[n] # tag_missing => bilou[n] = after_entities[n]

(***************************************************************************)
(* Properties of build_tag_id_dict.                                        *)
(***************************************************************************)
\* the tags of the corpus, whatever the order of examples and tags
CorpusTags ==
    UNION {Range(Get(tag_examples[i])) :
              i \in {i \in 1..Len(tag_examples) : ~IsNone(tag_examples[i])}}

\* the prefix-stripped labels of the corpus, "O" excluded
CorpusLabels == {entity_name_from_tag(t) : t \in CorpusTags} \ {tag_O}

\* the number of labels of the corpus that sort before label l
Rank(l) == Cardinality({m \in CorpusLabels : str_less(m, l)})

\* C10: "O" has id 0, the label with k labels before it in lexicographic
\* order has B-, I-, U-, L- at 4k+1 .. 4k+4, the dictionary has no other
\* key, and its ids are pairwise distinct and exactly 0..4n.
C10_TagIdDict ==
    tag_pc = "return" =>
        /\ DOMAIN tag_id_dict =
              {tag_O} \cup UNION {{B_(l), I_(l), U_(l), L_(l)} : l \in CorpusLabels}
        /\ tag_id_dict[tag_O] = 0
        /\ \A l \in CorpusLabels :
              /\ tag_id_dict[B_(l)] = 4 * Rank(l) + 1
              /\ tag_id_dict[I_(l)] = 4 * Rank(l) + 2
              /\ tag_id_dict[U_(l)] = 4 * Rank(l) + 3
              /\ tag_id_dict[L_(l)] = 4 * Rank(l) + 4
        /\ \A x \in DOMAIN tag_id_dict, y \in DOMAIN tag_id_dict :
              tag_id_dict[x] = tag_id_dict[y] => x = y
        /\ {tag_id_dict[x] : x \in DOMAIN tag_id_dict} = 0 .. 4 * Cardinality(CorpusLabels)

\* a corpus that names "b" before "ab": "ab" sorts first all the same
C10_Witness ==
    /\ tag_pc = "return"
    /\ tag_examples = <<Some(<<U_(label_b), tag_O>>), Some(<<B_(label_ab)>>)>>
    /\ tag_id_dict[B_(label_ab)] = 1 /\ tag_id_dict[U_(label_b)] = 7

(***************************************************************************)
(* Properties of tags_to_ids.                                              *)
(***************************************************************************)
\* C11: with a dictionary of build_tag_id_dict, every tag of the message
\* that is a key has the key's id, every "-" and every tag that is not a
\* key has 0, the id of "O", and there is one id per tag; a message
\* without tags has 0 for every token.
C11_TagsToIds ==
    ids_pc = "return" =>
        /\ tag_missing \notin DOMAIN ids_tag_id_dict
        /\ ids_tag_id_dict[tag_O] = 0
        /\ IF Truthy(ids_message.bilou_entities)
           THEN LET tags == Get(ids_message.bilou_entities)
                IN /\ Len(ids_tags) = Len(tags)
                   /\ \A n \in 1..Len(tags) :
                         /\ tags[n] \in DOMAIN ids_tag_id_dict =>
                               ids_tags[n] = ids_tag_id_dict[tags[n]]
                         /\ tags[n] \notin DOMAIN ids_tag_id_dict => ids_tags[n] = 0
                         /\ tags[n] = tag_missing => ids_tags[n] = 0
           ELSE /\ Len(ids_tags) = Len(ids_message.tokens)
                /\ \A n \in 1..Len(ids_tags) : ids_tags[n] = 0

\* a message with a "-", a tag that is no key and a tag that is one, mapped
\* with a dictionary built from a corpus that itself held a "-"
C11_Witness ==
    /\ ids_pc = "return"
    /\ ids_message.bilou_entities = Some(<<tag_missing, U_(label_b), L_(label_ab)>>)
    /\ B_(tag_missing) \in DOMAIN ids_tag_id_dict
    /\ U_(label_b) \notin DOMAIN ids_tag_id_dict
    /\ ids_tags = <<0, 0, 8>>

(***************************************************************************)
(* Properties of train() on examples without intent tokens.                *)
(***************************************************************************)
\* C12: no exception leaves train(): whatever the corpus, an example
\* without intent tokens included, the call returns normally and the
\* component is TRAINED or FAILED.
C12_TrainNeverRaises ==
    op = "train" => (exc = "none" /\ status \in {"TRAINED", "FAILED"})

(***************************************************************************)
(* Properties of bilou_tags_from_offsets on overlapping entities.          *)
(***************************************************************************)
\* the tokens from the one where the entity starts to the one where it
\* ends; none when a boundary is missed or the end comes first
TokenRange(e) ==
    {n \in 1..Len(tokens) :
        \E i \in 1..n, j \in n..Len(tokens) :
            tokens[i].start = e.start /\ tokens[j].end = e.end}

\* the tag of the entity on token n of its range
EntityTag(e, n) ==
    IF tokens[n].start = e.start /\ tokens[n].end = e.end THEN U_(e.label)
    ELSE IF tokens[n].start = e.start THEN B_(e.label)
    ELSE IF tokens[n].end = e.end THEN L_(e.label)
    ELSE I_(e.label)

\* C13: of two aligned entities whose token ranges overlap, the later in
\* the list wins: every token of its range has its tag, the tokens of the
\* earlier one's range outside it keep the earlier one's tag, and the call
\* returns a tag per token.  The other entities of the list, if any, are
\* misaligned ones, which write no tag.
C13_LastWriteWins ==
    pc = "return" =>
        \A k \in 1..Len(entities), l \in 1..Len(entities) :
            (/\ k < l
             /\ TokenRange(entities[k]) \cap TokenRange(entities[l]) # {}
             /\ \A m \in 1..Len(entities) \ {k, l} : Misaligned(entities[m])) =>
                /\ Len(bilou) = Len(tokens)
                /\ \A n \in TokenRange(entities[l]) : bilou[n] = EntityTag(entities[l], n)
                /\ \A n \in TokenRange(entities[k]) \ TokenRange(entities[l]) :
                      bilou[n] = EntityTag(entities[k], n)

\* "a" over three tokens, then "b" over the last two of them
C13_Witness ==
    /\ pc = "return" /\ Len(tokens) = 3 /\ Len(entities) = 2
    /\ TokenRange(entities[1]) = {1, 2, 3} /\ TokenRange(entities[2]) = {2, 3}
    /\ entities[1].label = label_a /\ entities[2].label = label_b
    /\ bilou = <<B_(label_a), B_(label_b), L_(label_b)>>

====
